---- MODULE Spec2Model ----
(***************************************************************************)
(* Model of CityGaussian's video drivers: render_video.py (single model)   *)
(* and render_video_lodv2.py (multi-level LOD), with the BlockedGaussian   *)
(* level of the LOD driver.                                                *)
(*                                                                         *)
(* Three specifications share the variables:                               *)
(*   Spec        render_sets of both drivers, down to each rendered frame  *)
(*   SpecSweep   one render_set call, with varying frame durations         *)
(*   SpecBlocked one BlockedGaussian: construction and per-point queries   *)
(*                                                                         *)
(* Units.  Positions, distances and thresholds are whole world units.      *)
(* Durations are whole ticks of the clock.  A quotient the code computes   *)
(* in floating point is kept as the pair [num, den].  The third column of  *)
(* a camera's world_view_transform is kept in tenths, so that the          *)
(* near-clip depth 0.2 is the integer 2.                                   *)
(***************************************************************************)
EXTENDS Integers, Sequences, FiniteSets

VARIABLES
    \* ---- render_sets: arguments and configuration
    driver,          \* "single" (render_video.py) or "lod" (render_video_lodv2.py)
    custom_test,     \* --custom_test, a path as its components; <<>> is None
    skip_train,      \* --skip_train
    skip_test,       \* --skip_test
    pitch,           \* --pitch
    lod_configs,     \* dataset.lod_configs (the configs' indices)
    cfg_threshold,   \* dataset.dist_threshold as configured
    dist_threshold,  \* dataset.dist_threshold (rewritten by render_sets)
    sceneCams,       \* cameras of the dataset: [train |-> n, test |-> m]
    \* ---- render_sets: locals and effects
    pc,              \* position of the control thread
    err,             \* the exception that ended the run, "" when none
    i,               \* loop index of the level-loading loop
    scenes_loaded,   \* LargeScene objects constructed so far
    lod_gs_list,     \* ranges of the BlockedGaussian levels built so far
    views,           \* local `views` of render_sets
    filename,        \* local `filename` of render_sets
    calls,           \* render_set calls made so far
    \* ---- render_set: locals and effects
    rs,              \* locals of the render_set call in progress
    videos,          \* video.gif files written
    printed,         \* FPS reports printed
    \* ---- BlockedGaussian
    bg               \* one BlockedGaussian object and its current query

vars == <<driver, custom_test, skip_train, skip_test, pitch, lod_configs,
          cfg_threshold, dist_threshold, sceneCams, pc, err, i, scenes_loaded,
          lod_gs_list, views, filename, calls, rs, videos, printed, bg>>

argVars == <<driver, custom_test, skip_train, skip_test, pitch, lod_configs,
             cfg_threshold, sceneCams>>

(***************************************************************************)
(* Bounds of the model                                                     *)
(***************************************************************************)
MaxLevels == 3
MaxThreshold == 3
MaxDuration == 2
MaxPoints == 3

(***************************************************************************)
(* Constants of the program                                                *)
(***************************************************************************)
FarSentinel == 1000000
CamIdx == 481
SweepStart == 500
SweepStop == 2525
SweepStep == 25
HeightDivisor == 100
NearClipTenths == 2
MadFactor == 4

(***************************************************************************)
(* Helpers                                                                 *)
(***************************************************************************)
Min(a, b) == IF a <= b THEN a ELSE b
Max(a, b) == IF a >= b THEN a ELSE b
Abs(a) == IF a >= 0 THEN a ELSE 0 - a

SeqsUpTo(S, n) == UNION {[1..k -> S] : k \in 0..n}

\* os.path.basename of a path given as its components
Basename(path) == IF path = <<>> THEN "" ELSE path[Len(path)]

\* Python truthiness of a path argument: None and "" are false
Truthy(path) == path # <<>>

\* A camera list: the first `train` cameras are the scene's train cameras,
\* the next `test` ones its test cameras.
NoViews == [bound |-> FALSE, train |-> 0, test |-> 0]
TrainCameras(scene) == [bound |-> TRUE, train |-> scene.train, test |-> 0]
TestCameras(scene) == [bound |-> TRUE, train |-> 0, test |-> scene.test]
AllCameras(scene) == [bound |-> TRUE, train |-> scene.train, test |-> scene.test]
ViewsLen(v) == v.train + v.test
ViewsAt(v, k) == IF k < v.train THEN <<"train", k>> ELSE <<"test", k - v.train>>

(***************************************************************************)
(* render_set (identical in both drivers, but for the renderer it calls)   *)
(***************************************************************************)
\* Python's len(range(start, stop, step)) and range(start, stop, step), step > 0
RangeLen(start, stop, step) ==
    IF stop <= start THEN 0 ELSE (stop - start + step - 1) \div step
PyRange(start, stop, step) ==
    [k \in 1..RangeLen(start, stop, step) |-> start + (k - 1) * step]

\* range(500, 2500, 25): the sweep with its last height dropped
SweepHeightsShort == PyRange(SweepStart, SweepStop - SweepStep, SweepStep)
\* range(500, 2525, 25)
SweepHeights == PyRange(SweepStart, SweepStop, SweepStep)

\* loadCamV2(lp, idx, views[idx], 1.0, pitch, float(height)/100)
LoadCamV2(idx, view, p, heightNum, heightDen) ==
    [idx |-> idx, view |-> view, pitch |-> p,
     height |-> [num |-> heightNum, den |-> heightDen]]

\* The locals of render_set on entry; k counts the iterations done, and
\* height is the parameter (None, here -1) until the loop rebinds it.
EnterRenderSet(name, v, p, ret) ==
    [name |-> name, views |-> v, pitch |-> p, ret |-> ret, k |-> 0,
     height |-> -1, frames |-> 0, durations |-> 0, avg_render_time |-> 0,
     max_render_time |-> 0, poses |-> <<>>]

\* One iteration of the sweep, its render taking d ticks
FrameStep(r, d) ==
    LET h == SweepHeights[r.k + 1] IN
    [r EXCEPT !.k = @ + 1,
              !.height = h,
              !.poses = Append(@, LoadCamV2(CamIdx, ViewsAt(r.views, CamIdx),
                                            r.pitch, h, HeightDivisor)),
              !.frames = @ + 1,
              !.durations = @ + 1,
              !.avg_render_time = @ + d,
              !.max_render_time = Max(@, d)]

\* len(views) / avg_render_time
AverageFps(r) == [num |-> ViewsLen(r.views), den |-> r.avg_render_time]
\* 1 / max_render_time
MinFps(r) == [num |-> 1, den |-> r.max_render_time]

VideoPath(name) == <<"model_path", name, "ours_lod_video", "video.gif">>

\* The loop body; D is the set of durations a frame's render may take.
\* views[idx] raises IndexError when the list has no camera 481.
RenderFrame(D) ==
    /\ pc = "render"
    /\ rs.k < Len(SweepHeights)
    /\ IF ViewsLen(rs.views) <= CamIdx
       THEN /\ pc' = "error"
            /\ err' = "IndexError"
            /\ rs' = rs
       ELSE /\ \E d \in D : rs' = FrameStep(rs, d)
            /\ UNCHANGED <<pc, err>>
    /\ UNCHANGED <<argVars, dist_threshold, i, scenes_loaded, lod_gs_list,
                   views, filename, calls, videos, printed, bg>>

\* After the loop: imageio.mimsave and the three report lines
FinishRenderSet ==
    /\ pc = "render"
    /\ rs.k = Len(SweepHeights)
    /\ videos' = videos \cup {[path |-> VideoPath(rs.name), frames |-> rs.frames,
                               durations |-> rs.durations]}
    /\ printed' = Append(printed, [name |-> rs.name, height |-> rs.height,
                                   avg |-> AverageFps(rs), min |-> MinFps(rs)])
    /\ pc' = rs.ret
    /\ UNCHANGED <<argVars, dist_threshold, err, i, scenes_loaded, lod_gs_list,
                   views, filename, calls, rs, bg>>

(***************************************************************************)
(* render_sets                                                             *)
(***************************************************************************)
\* The assertion that guards the LOD driver, and a driver without it
CountsUnchecked(configs, thresholds) == TRUE
CountsMatch(configs, thresholds) == Len(configs) - 1 = Len(thresholds)

\* [0] + dist_threshold + [1e6]
SynthThresholds(t) == <<0>> \o t \o <<FarSentinel>>

\* range=[dist_threshold[i], dist_threshold[i+1]] for the 0-based level i,
\* and a range that starts every level at the list's head
LevelRangeFromHead(t, lvl) == <<t[1], t[lvl + 2]>>
LevelRange(t, lvl) == <<t[lvl + 1], t[lvl + 2]>>

\* render_video_lodv2.py: the assertion and the rewrite of dist_threshold
LodCheckConfig ==
    /\ pc = "start"
    /\ driver = "lod"
    /\ IF CountsMatch(lod_configs, dist_threshold)
       THEN /\ dist_threshold' = SynthThresholds(dist_threshold)
            /\ pc' = IF Len(lod_configs) = 0 THEN "select" ELSE "load"
            /\ err' = err
       ELSE /\ pc' = "error"
            /\ err' = "AssertionError"
            /\ dist_threshold' = dist_threshold
    /\ UNCHANGED <<argVars, i, scenes_loaded, lod_gs_list, views, filename,
                   calls, rs, videos, printed, bg>>

\* render_video_lodv2.py: one iteration of the loading loop.  load_gaussians
\* builds the level's LargeScene; BlockedGaussian(...) either completes or
\* raises out of cell_divider (see DivideCell).
LodLoadLevel ==
    /\ pc = "load"
    /\ i < Len(lod_configs)
    /\ scenes_loaded' = scenes_loaded + 1
    /\ IF i + 2 > Len(dist_threshold)
       THEN /\ pc' = "error"
            /\ err' = "IndexError"
            /\ UNCHANGED <<i, lod_gs_list>>
       ELSE \E built \in BOOLEAN :
              IF built
              THEN /\ lod_gs_list' = Append(lod_gs_list, LevelRange(dist_threshold, i))
                   /\ i' = i + 1
                   /\ pc' = IF i + 1 = Len(lod_configs) THEN "select" ELSE "load"
                   /\ err' = err
              ELSE /\ pc' = "error"
                   /\ err' = "IndexError"
                   /\ UNCHANGED <<i, lod_gs_list>>
    /\ UNCHANGED <<argVars, dist_threshold, views, filename, calls, rs, videos,
                   printed, bg>>

\* render_video.py: the model and its one LargeScene
SingleLoadScene ==
    /\ pc = "start"
    /\ driver = "single"
    /\ scenes_loaded' = scenes_loaded + 1
    /\ pc' = "select"
    /\ UNCHANGED <<argVars, dist_threshold, err, i, lod_gs_list, views, filename,
                   calls, rs, videos, printed, bg>>

\* A call render_set(model_path, name, ..., v, ...): evaluating an unbound v
\* raises before the call is made.
CallRenderSet(name, v, ret) ==
    IF v.bound
    THEN /\ calls' = Append(calls, [name |-> name, views |-> v])
         /\ rs' = EnterRenderSet(name, v, pitch, ret)
         /\ pc' = "render"
         /\ err' = err
    ELSE /\ pc' = "error"
         /\ err' = "NameError"
         /\ UNCHANGED <<calls, rs>>

\* if custom_test: one combined split, named after the path
SelectCustom ==
    /\ pc = "select"
    /\ Truthy(custom_test)
    /\ filename' = Basename(custom_test)
    /\ views' = AllCameras(sceneCams)
    /\ CallRenderSet(filename', views', "done")
    /\ UNCHANGED <<argVars, dist_threshold, i, scenes_loaded, lod_gs_list,
                   videos, printed, bg>>

\* The camera list each driver passes for a split: render_video.py asks the
\* scene, render_video_lodv2.py passes its local `views`.
SplitViews(split) ==
    IF driver = "single"
    THEN IF split = "train" THEN TrainCameras(sceneCams) ELSE TestCameras(sceneCams)
    ELSE views

\* else: if not skip_train: render_set(..., "train", ...)
SelectTrain ==
    /\ pc = "select"
    /\ ~Truthy(custom_test)
    /\ IF skip_train
       THEN /\ pc' = "select_test"
            /\ UNCHANGED <<err, calls, rs>>
       ELSE CallRenderSet("train", SplitViews("train"), "select_test")
    /\ UNCHANGED <<argVars, dist_threshold, i, scenes_loaded, lod_gs_list, views,
                   filename, videos, printed, bg>>

\* if not skip_test: render_set(..., "test", ...)
SelectTest ==
    /\ pc = "select_test"
    /\ IF skip_test
       THEN /\ pc' = "done"
            /\ UNCHANGED <<err, calls, rs>>
       ELSE CallRenderSet("test", SplitViews("test"), "done")
    /\ UNCHANGED <<argVars, dist_threshold, i, scenes_loaded, lod_gs_list, views,
                   filename, videos, printed, bg>>

(***************************************************************************)
(* BlockedGaussian                                                         *)
(***************************************************************************)
RECURSIVE MaskSelect(_, _, _)
\* t[mask] for a boolean mask (here the set of its true rows, 1-based):
\* the selected rows of t, in their order
MaskSelect(t, mask, from) ==
    IF from > Len(t) THEN <<>>
    ELSE IF from \in mask THEN <<t[from]>> \o MaskSelect(t, mask, from + 1)
    ELSE MaskSelect(t, mask, from + 1)

TrueRows(m) == {j \in 1..Len(m) : m[j]}

\* One axis (1, 2, 3) of a list of positions
AxisVals(pts, a) == [j \in 1..Len(pts) |-> pts[j][a]]

\* The k-th smallest value of a non-empty list
KthSmallest(vals, k) ==
    CHOOSE v \in {vals[j] : j \in 1..Len(vals)} :
        /\ Cardinality({j \in 1..Len(vals) : vals[j] < v}) < k
        /\ Cardinality({j \in 1..Len(vals) : vals[j] <= v}) >= k

\* torch.median along a dimension: the lower of the two middle values when
\* the count is even
Median(vals) == KthSmallest(vals, (Len(vals) + 1) \div 2)
\* torch.min / torch.max along a dimension
MinOf(vals) == KthSmallest(vals, 1)
MaxOf(vals) == KthSmallest(vals, Len(vals))

\* The median absolute deviation of the values from their median
Mad(vals) == Median([j \in 1..Len(vals) |-> Abs(vals[j] - Median(vals))])

\* xyz_min of a cell on one axis, with min taken where the code takes max
AxisMinLoose(vals, n) == Min(Median(vals) - n * Mad(vals), MinOf(vals))
\* xyz_min and xyz_max of a cell on one axis
AxisMin(vals, n) == Max(Median(vals) - n * Mad(vals), MinOf(vals))
AxisMax(vals, n) == Min(Median(vals) + n * Mad(vals), MaxOf(vals))

\* The 8 corners of the box [lo, hi], in the order the code lists them
Corners(lo, hi) ==
    << <<lo[1], lo[2], lo[3]>>, <<lo[1], lo[2], hi[3]>>,
       <<lo[1], hi[2], lo[3]>>, <<lo[1], hi[2], hi[3]>>,
       <<hi[1], lo[2], lo[3]>>, <<hi[1], lo[2], hi[3]>>,
       <<hi[1], hi[2], lo[3]>>, <<hi[1], hi[2], hi[3]>> >>

\* The corners of the cell whose member positions are pts (not empty)
CellCorners(pts, n) ==
    Corners([a \in 1..3 |-> AxisMin(AxisVals(pts, a), n)],
            [a \in 1..3 |-> AxisMax(AxisVals(pts, a), n)])

\* torch.zeros(N, dtype=torch.long), and a tensor of -1 in its place
InitCellIdsUnset(n) == [j \in 1..n |-> -1]
InitCellIds(n) == [j \in 1..n |-> 0]

NumCell(block_dim) == block_dim[1] * block_dim[2] * block_dim[3]

NoCam == [camera_center |-> <<0, 0, 0>>, zcol |-> <<0, 0, 0, 0>>]

\* The object as __init__ leaves it when it calls cell_divider, with xyz and
\* feats as lines 66-69 set them.  A row of feats is named by the index of
\* the gaussian it was built from.  `given`, `matched` and `cam` are not
\* fields of the object: the positions passed in, how many cells' masks have
\* matched each point, and the camera of the last query.
NewBlocked(pts, block_dim, range) ==
    [phase |-> "divide",
     given |-> pts,
     xyz |-> pts,
     feats |-> [j \in 1..Len(pts) |-> j],
     cell_ids |-> InitCellIds(Len(pts)),
     mask |-> [j \in 1..Len(pts) |-> FALSE],
     num_cell |-> NumCell(block_dim),
     range |-> range,
     cell_corners |-> <<>>,
     cell_idx |-> 0,
     cell_mask |-> {},
     matched |-> [j \in 1..Len(pts) |-> 0],
     cam |-> NoCam,
     queried |-> FALSE,
     out_xyz |-> <<>>,
     out_feats |-> <<>>]

\* No BlockedGaussian under study
IdleBlocked == [NewBlocked(<<>>, <<1, 1, 1>>, <<0, 1>>) EXCEPT !.phase = "none"]

\* One iteration of cell_divider's loop.  cell_mask is whatever
\* block_filtering returns for the cell.  torch.median over the empty
\* selection raises; the last iteration is followed by torch.stack.
DivideCell ==
    /\ pc = "blocked"
    /\ bg.phase = "divide"
    /\ bg.cell_idx < bg.num_cell
    /\ \E cell_mask \in SUBSET (1..Len(bg.xyz)) :
         LET ids == [j \in 1..Len(bg.xyz) |->
                        IF j \in cell_mask THEN bg.cell_idx ELSE bg.cell_ids[j]]
             hit == [j \in 1..Len(bg.xyz) |->
                        IF j \in cell_mask THEN bg.matched[j] + 1 ELSE bg.matched[j]]
             members == MaskSelect(bg.xyz, cell_mask, 1)
         IN  IF cell_mask = {}
             THEN /\ bg' = [bg EXCEPT !.cell_ids = ids, !.cell_mask = cell_mask,
                                      !.phase = "error"]
                  /\ err' = "IndexError"
             ELSE /\ bg' = [bg EXCEPT
                              !.cell_ids = ids,
                              !.matched = hit,
                              !.cell_mask = cell_mask,
                              !.cell_corners = Append(@, CellCorners(members, MadFactor)),
                              !.cell_idx = @ + 1,
                              !.phase = IF bg.cell_idx + 1 = bg.num_cell
                                        THEN "ready" ELSE "divide"]
                  /\ err' = err
    /\ UNCHANGED <<argVars, dist_threshold, pc, i, scenes_loaded, lod_gs_list,
                   views, filename, calls, rs, videos, printed>>

\* Floor of the square root
ISqrt(n) == CHOOSE r \in 0..n : r * r <= n /\ (r + 1) * (r + 1) > n

\* torch.norm(xyz - cam_center): compared only with whole thresholds, for
\* which the floor of the distance decides as the distance does
Distance(p, c) ==
    ISqrt((p[1] - c[1]) * (p[1] - c[1]) + (p[2] - c[2]) * (p[2] - c[2])
          + (p[3] - c[3]) * (p[3] - c[3]))

\* (homo_xyz @ viewmatrix)[..., 2], in tenths
DepthTenths(p, zcol) == p[1] * zcol[1] + p[2] * zcol[2] + p[3] * zcol[3] + zcol[4]

\* The near-clip test, and the test that lets depth 0.2 through
NearClipInclusive(depthTenths) == depthTenths >= NearClipTenths
NearClip(depthTenths) == depthTenths > NearClipTenths

\* The range test of a level, and the test with its far end closed
InRangeClosed(d, range) == d >= range[1] /\ d <= range[2]
InRange(d, range) == d >= range[1] /\ d < range[2]

\* get_feats_ptwise(viewpoint_cam) of a constructed level
GetFeatsPtwise(b, cam) ==
    LET n == Len(b.xyz)
        clip == [j \in 1..n |-> NearClip(DepthTenths(b.xyz[j], cam.zcol))]
        both == [j \in 1..n |->
                    clip[j] /\ InRange(Distance(b.xyz[j], cam.camera_center), b.range)]
    IN  IF TrueRows(clip) = {}
        THEN [b EXCEPT !.mask = clip, !.out_xyz = <<>>, !.out_feats = <<>>,
                       !.cam = cam, !.queried = TRUE]
        ELSE [b EXCEPT !.mask = both,
                       !.out_xyz = MaskSelect(b.xyz, TrueRows(both), 1),
                       !.out_feats = MaskSelect(b.feats, TrueRows(both), 1),
                       !.cam = cam, !.queried = TRUE]

(***************************************************************************)
(* The inputs the specifications draw from                                 *)
(***************************************************************************)
Paths == {<<>>, <<"data", "city">>}
Pitches == {-180, -90}
SceneCams == {[train |-> 482, test |-> 482], [train |-> 482, test |-> 300],
              [train |-> 300, test |-> 182]}
ConfigLists == {[j \in 1..n |-> j] : n \in 0..MaxLevels}
ThresholdVals == (0..MaxThreshold) \cup {FarSentinel + 1}
ThresholdLists == SeqsUpTo(ThresholdVals, MaxLevels - 1)

PointPool == {<<0, 0, 0>>, <<1, 0, 2>>, <<9, 4, 0>>}
BlockDims == {<<1, 1, 1>>, <<2, 1, 1>>}
LevelRanges == {LevelRange(SynthThresholds(<<2, 5>>), lvl) : lvl \in 0..2}
Cameras == {[camera_center |-> <<0, 0, 0>>, zcol |-> <<10, 0, 0, 3>>],
            [camera_center |-> <<1, 0, 0>>, zcol |-> <<0, 5, 10, 2>>],
            [camera_center |-> <<0, 0, 0>>, zcol |-> <<0, 0, -10, 0>>]}

\* A query of the constructed level, for any camera
QueryPtwise ==
    /\ pc = "blocked"
    /\ bg.phase = "ready"
    /\ \E cam \in Cameras : bg' = GetFeatsPtwise(bg, cam)
    /\ UNCHANGED <<argVars, dist_threshold, pc, err, i, scenes_loaded,
                   lod_gs_list, views, filename, calls, rs, videos, printed>>

(***************************************************************************)
(* Spec: render_sets of either driver                                      *)
(***************************************************************************)
IdleRenderSet == EnterRenderSet("", NoViews, 0, "done")

Init ==
    /\ driver \in {"single", "lod"}
    /\ custom_test \in Paths
    /\ skip_train \in BOOLEAN
    /\ skip_test \in BOOLEAN
    /\ pitch \in Pitches
    /\ sceneCams \in SceneCams
    /\ lod_configs \in IF driver = "lod" THEN ConfigLists ELSE {<<>>}
    /\ cfg_threshold \in IF driver = "lod" THEN ThresholdLists ELSE {<<>>}
    /\ dist_threshold = cfg_threshold
    /\ pc = "start"
    /\ err = ""
    /\ i = 0
    /\ scenes_loaded = 0
    /\ lod_gs_list = <<>>
    /\ views = NoViews
    /\ filename = ""
    /\ calls = <<>>
    /\ rs = IdleRenderSet
    /\ videos = {}
    /\ printed = <<>>
    /\ bg = IdleBlocked

\* In Spec every frame takes one tick; SpecSweep varies the durations.
DriverFrame == RenderFrame({1})

Next ==
    \/ LodCheckConfig
    \/ LodLoadLevel
    \/ SingleLoadScene
    \/ SelectCustom
    \/ SelectTrain
    \/ SelectTest
    \/ DriverFrame
    \/ FinishRenderSet

Spec == Init /\ [][Next]_vars

(***************************************************************************)
(* SpecSweep: one call of render_set                                       *)
(***************************************************************************)
InitSweep ==
    /\ driver \in {"single", "lod"}
    /\ custom_test = <<>>
    /\ skip_train = FALSE
    /\ skip_test = FALSE
    /\ pitch \in Pitches
    /\ sceneCams \in SceneCams
    /\ lod_configs = <<>>
    /\ cfg_threshold = <<>>
    /\ dist_threshold = <<>>
    /\ pc = "render"
    /\ err = ""
    /\ i = 0
    /\ scenes_loaded = 0
    /\ lod_gs_list = <<>>
    /\ views = NoViews
    /\ filename = ""
    /\ calls = <<>>
    /\ \E v \in {AllCameras(sceneCams), TrainCameras(sceneCams)} :
          rs = EnterRenderSet("train", v, pitch, "done")
    /\ videos = {}
    /\ printed = <<>>
    /\ bg = IdleBlocked

SweepFrame == RenderFrame(1..MaxDuration)

NextSweep ==
    \/ SweepFrame
    \/ FinishRenderSet

SpecSweep == InitSweep /\ [][NextSweep]_vars

(***************************************************************************)
(* SpecBlocked: one BlockedGaussian                                        *)
(***************************************************************************)
InitBlocked ==
    /\ driver = "lod"
    /\ custom_test = <<>>
    /\ skip_train = FALSE
    /\ skip_test = FALSE
    /\ pitch = -180
    /\ sceneCams \in {[train |-> 482, test |-> 482]}
    /\ lod_configs = <<>>
    /\ cfg_threshold = <<>>
    /\ dist_threshold = <<>>
    /\ pc = "blocked"
    /\ err = ""
    /\ i = 0
    /\ scenes_loaded = 0
    /\ lod_gs_list = <<>>
    /\ views = NoViews
    /\ filename = ""
    /\ calls = <<>>
    /\ rs = IdleRenderSet
    /\ videos = {}
    /\ printed = <<>>
    /\ \E pts \in SeqsUpTo(PointPool, MaxPoints), block_dim \in BlockDims,
          range \in LevelRanges :
          bg = NewBlocked(pts, block_dim, range)

NextBlocked ==
    \/ DivideCell
    \/ QueryPtwise

SpecBlocked == InitBlocked /\ [][NextBlocked]_vars

(***************************************************************************)
(* Properties of render_sets, under Spec                                    *)
(***************************************************************************)
Ascending(t) == \A a, b \in 1..Len(t) : a < b => t[a] <= t[b]

\* The loading loop of the LOD driver has built every level
AllLevelsBuilt ==
    /\ driver = "lod"
    /\ Len(lod_configs) > 0
    /\ Len(lod_gs_list) = Len(lod_configs)

\* Distances around every threshold and around the far sentinel
DistSamples ==
    (0..(MaxThreshold + 1)) \cup {FarSentinel - 1, FarSentinel, FarSentinel + 1,
                                  FarSentinel + 2}

\* The levels whose range test accepts distance d
Accepting(d) == {l \in 1..Len(lod_gs_list) : InRange(d, lod_gs_list[l])}

Contiguous ==
    \A l \in 1..(Len(lod_gs_list) - 1) : lod_gs_list[l][2] = lod_gs_list[l + 1][1]

LodCountsMismatch == driver = "lod" /\ Len(lod_configs) - 1 # Len(cfg_threshold)

\* C2: when the number of thresholds is not the number of LOD configs minus
\* one, the run ends in the assertion's error with no scene loaded, no level
\* built, no render_set call, no frame rendered and no video written.
C2_MismatchFailsFirst ==
    LodCountsMismatch =>
        /\ pc \in {"start", "error"}
        /\ pc = "error" => err = "AssertionError"
        /\ scenes_loaded = 0
        /\ lod_gs_list = <<>>
        /\ calls = <<>>
        /\ rs.frames = 0
        /\ videos = {}
        /\ printed = <<>>

\* A run with three configs and one threshold has been refused
C2_Witness ==
    /\ LodCountsMismatch
    /\ Len(lod_configs) = 3
    /\ Len(cfg_threshold) = 1
    /\ pc = "error"
    /\ err = "AssertionError"

\* C3: for ascending thresholds no distance is accepted by the range test of
\* more than one level, and a distance equal to a threshold t is accepted
\* only by a level whose range starts at t, never by one whose range ends
\* at t.
C3_LevelsDisjoint ==
    (AllLevelsBuilt /\ Ascending(cfg_threshold)) =>
        /\ \A d \in DistSamples : Cardinality(Accepting(d)) <= 1
        /\ \A k \in 1..Len(cfg_threshold) :
             \A l \in 1..Len(lod_gs_list) :
                /\ l \in Accepting(cfg_threshold[k]) => lod_gs_list[l][1] = cfg_threshold[k]
                /\ lod_gs_list[l][2] = cfg_threshold[k] => l \notin Accepting(cfg_threshold[k])

\* A distance equal to the first threshold is accepted by the second level
\* and the first level's range ends there
C3_Witness ==
    /\ AllLevelsBuilt
    /\ Ascending(cfg_threshold)
    /\ Len(lod_gs_list) >= 2
    /\ cfg_threshold[1] > 0
    /\ lod_gs_list[1][2] = cfg_threshold[1]
    /\ 2 \in Accepting(cfg_threshold[1])

CallNames == [c \in 1..Len(calls) |-> calls[c].name]

\* C5 as claimed: with an override path exactly one render_set call is
\* made, for the split named after the path's basename; without one the
\* train split is rendered iff skip_train is unset and the test split iff
\* skip_test is unset; and every such call is reached with a defined camera
\* list, in both drivers.
C5_SplitSelection ==
    /\ err # "NameError"
    /\ \A c \in 1..Len(calls) : calls[c].views.bound
    /\ pc = "done" =>
          CallNames = IF Truthy(custom_test)
                      THEN <<Basename(custom_test)>>
                      ELSE (IF skip_train THEN <<>> ELSE <<"train">>)
                           \o (IF skip_test THEN <<>> ELSE <<"test">>)

(***************************************************************************)
(* Properties of render_set, under SpecSweep                               *)
(***************************************************************************)
LastReport == printed[Len(printed)]

\* frameCount / sumOfDurations
AverageFpsByFrames(r) == [num |-> r.frames, den |-> r.avg_render_time]

\* C4 as claimed: once render_set has rendered its N frames, the average
\* FPS it reports equals N divided by the sum of the frames' durations,
\* whatever the number of cameras in views.
C4_AverageFpsByFrames ==
    (pc = "done" /\ printed # <<>>) =>
        LastReport.avg.num * AverageFpsByFrames(rs).den
            = AverageFpsByFrames(rs).num * LastReport.avg.den

\* The 81 poses of the sweep for a camera list and a pitch
ExpectedPoses(v, p) ==
    [k \in 1..81 |->
        [idx |-> 481,
         view |-> IF 481 < v.train THEN <<"train", 481>> ELSE <<"test", 481 - v.train>>,
         pitch |-> p,
         height |-> [num |-> 500 + 25 * (k - 1), den |-> 100]]]

\* C6: the loop of render_set produces, in order, exactly the 81 poses with
\* heights 500, 525, ..., 2500 (each divided by 100), all with camera index
\* 481, the view views[481] and the call's pitch; the sequence depends on
\* the call's parameters alone, so a re-run yields it again.
C6_SweepPoses ==
    /\ pc = "render" => /\ rs.k <= 81
                        /\ rs.poses = SubSeq(ExpectedPoses(rs.views, rs.pitch), 1, rs.k)
    /\ pc = "done" => rs.poses = ExpectedPoses(rs.views, rs.pitch)

\* A sweep over a list whose camera 481 is a test camera has finished, its
\* frames not all of the same duration
C6_Witness ==
    /\ pc = "done"
    /\ Len(rs.poses) = 81
    /\ rs.poses[81].height.num = 2500
    /\ rs.poses[1].view = <<"test", 181>>
    /\ rs.avg_render_time > 81
    /\ rs.avg_render_time < 81 * rs.max_render_time

(***************************************************************************)
(* Properties of BlockedGaussian, under SpecBlocked                        *)
(***************************************************************************)
\* cell_divider has just stored the box of a cell, whose members are the
\* rows of bg.cell_mask
CellBoxed == bg.phase \in {"divide", "ready"} /\ bg.cell_corners # <<>>
LastBoxMin == bg.cell_corners[Len(bg.cell_corners)][1]
LastBoxMax == bg.cell_corners[Len(bg.cell_corners)][8]

\* C7 as claimed: the box of a non-empty cell contains, on each axis, the
\* true minimum and maximum of its members' positions, so no member lies
\* outside the box.
C7_BoxContainsMembers ==
    CellBoxed =>
        \A a \in 1..3 : \A j \in bg.cell_mask :
            LastBoxMin[a] <= bg.xyz[j][a] /\ bg.xyz[j][a] <= LastBoxMax[a]

\* C7 (amended): the box of a non-empty cell lies, on each axis, within the
\* true extent of its members (true min <= xyz_min <= xyz_max <= true max)
\* and contains every member within 4 median absolute deviations of the
\* members' median; members farther from the median may lie outside it.
C7_BoxWithinExtent ==
    CellBoxed =>
        \A a \in 1..3 :
            LET vals == AxisVals(MaskSelect(bg.xyz, bg.cell_mask, 1), a)
                dev(v) == IF v >= Median(vals) THEN v - Median(vals) ELSE Median(vals) - v
            IN  /\ \E j \in bg.cell_mask : bg.xyz[j][a] <= LastBoxMin[a]
                /\ \E j \in bg.cell_mask : bg.xyz[j][a] >= LastBoxMax[a]
                /\ LastBoxMin[a] <= LastBoxMax[a]
                /\ \A j \in bg.cell_mask :
                      dev(bg.xyz[j][a]) <= 4 * Mad(vals) =>
                          LastBoxMin[a] <= bg.xyz[j][a] /\ bg.xyz[j][a] <= LastBoxMax[a]

\* A cell of three distinct members has a box of positive size that leaves
\* one of them out
C7_Witness ==
    /\ CellBoxed
    /\ Cardinality({bg.xyz[j] : j \in bg.cell_mask}) = 3
    /\ LastBoxMin[1] < LastBoxMax[1]
    /\ \E j \in bg.cell_mask : bg.xyz[j][1] > LastBoxMax[1]

\* C8 as claimed: constructing a BlockedGaussian some cell of which has no
\* member or a single member raises no error, and construction completes
\* with one box per cell.
C8_DegenerateCellBuilds ==
    /\ bg.phase # "error"
    /\ bg.phase = "ready" => Len(bg.cell_corners) = bg.num_cell

\* C9: get_feats_ptwise returns exactly the points whose camera-space depth
\* is above 0.2 and whose distance to the camera centre is in [near, far),
\* positions and features by the same selection and in the stored order
\* (both empty when no point passes), and leaves the stored positions and
\* features as they were given.
C9_PtwiseExact ==
    /\ bg.xyz = bg.given
    /\ bg.feats = [j \in 1..Len(bg.given) |-> j]
    /\ bg.queried =>
          LET c == bg.cam.camera_center
              keep == {j \in 1..Len(bg.given) :
                          /\ DepthTenths(bg.given[j], bg.cam.zcol) > 2
                          /\ Distance(bg.given[j], c) >= bg.range[1]
                          /\ Distance(bg.given[j], c) < bg.range[2]}
          IN  /\ Len(bg.out_xyz) = Cardinality(keep)
              /\ Len(bg.out_feats) = Cardinality(keep)
              /\ \A k \in 1..Len(bg.out_xyz) :
                    /\ bg.out_feats[k] \in keep
                    /\ bg.out_xyz[k] = bg.given[bg.out_feats[k]]
                    /\ k > 1 => bg.out_feats[k - 1] < bg.out_feats[k]

\* A query has kept some points, clipped one at depth exactly 0.2 and
\* refused one for its distance
C9_Witness ==
    /\ bg.queried
    /\ bg.out_xyz # <<>>
    /\ \E j \in 1..Len(bg.xyz) : DepthTenths(bg.xyz[j], bg.cam.zcol) = 2
    /\ \E j \in 1..Len(bg.xyz) :
          /\ DepthTenths(bg.xyz[j], bg.cam.zcol) > 2
          /\ j \notin {bg.out_feats[k] : k \in 1..Len(bg.out_feats)}

\* C10: every point has one cell id, in [0, numCells), whatever masks the
\* block filter returns, and no point is dropped from the level's points.
C10_PartitionComplete ==
    /\ bg.xyz = bg.given
    /\ Len(bg.cell_ids) = Len(bg.given)
    /\ \A j \in 1..Len(bg.cell_ids) :
          bg.cell_ids[j] >= 0 /\ bg.cell_ids[j] < bg.num_cell

\* A two-cell level has been constructed with one point no cell's mask
\* matched and one point both masks matched
C10_Witness ==
    /\ bg.phase = "ready"
    /\ bg.num_cell = 2
    /\ \E j \in 1..Len(bg.xyz) : bg.matched[j] = 0
    /\ \E j \in 1..Len(bg.xyz) : bg.matched[j] = 2

====
